---- MODULE Spec2Model ----
(***************************************************************************)
(* Model of examples_pico/streamingData.cpp of the RF24 library: a node    *)
(* that either streams SIZE payloads to its peer (TX role) or drains       *)
(* received payloads (RX role), the role being switched from the serial    *)
(* terminal.                                                               *)
(*                                                                         *)
(* The program is main(): setup() once, then loop() for ever.  The RF24    *)
(* driver and the Pico SDK are external; what they return (begin(),        *)
(* writeFast(), available(), the bytes read(), getchar_timeout_us()) is    *)
(* drawn nondeterministically, and the calls made to them are counted per  *)
(* call of loop() in `calls`.                                              *)
(***************************************************************************)
EXTENDS Integers, FiniteSets, Sequences, TLC

(***************************************************************************)
(* Program constants.                                                      *)
(***************************************************************************)
\* #define SIZE 32
SIZE == 32
\* if (failures >= 100)
FailureThreshold == 100
\* PICO_ERROR_TIMEOUT of the Pico SDK, what getchar_timeout_us() returns on
\* a timeout
PICO_ERROR_TIMEOUT == -1

(***************************************************************************)
(* Bounds of the model.                                                    *)
(***************************************************************************)
\* greatest number of payloads drained in one stay in the RX role; above
\* 256 so that the 8-bit counter is seen to wrap
MaxDrained == 258

\* uint8_t arithmetic
U8(n) == n % 256

Abs(x) == IF x < 0 THEN -x ELSE x

\* the values getchar_timeout_us() is made to return: a timeout, the four
\* command letters, another letter ('x') and the byte 0xFF
Inputs == {PICO_ERROR_TIMEOUT, 84, 116, 82, 114, 120, 255}

\* the names of the external calls counted in `calls`
CallNames == {"flush_tx", "writeFast", "reUseTX", "available", "read",
              "readBytes", "startListening", "stopListening",
              "getchar_timeout_us"}

NoCalls == [c \in CallNames |-> 0]

\* one more call of c (by n for the byte count)
Called(cs, c, n) == [cs EXCEPT ![c] = @ + n]

(***************************************************************************)
(* makePayload(i): byte 0 is the marker, bytes 1..SIZE-1 the pattern;      *)
(* index SIZE is not written.                                              *)
(***************************************************************************)
\* the offset of the letters past 'Z' forgotten
MarkerByte_oneOffset(i) == U8(i + 65)

MarkerByte(i) == U8(i + (IF i < 26 THEN 65 ELSE 71))

\* the upper edge of the band compared with > for >=
PatternByte_strict(j, i) ==
    LET mid  == (SIZE - 1) \div 2
        d    == Abs(mid - i)
        high == IF j > mid + d THEN 1 ELSE 0
        low  == IF j < mid - d THEN 1 ELSE 0
        chr  == IF high = 1 \/ low = 1 THEN 1 ELSE 0
    IN  U8(chr + 48)

\* abs() forgotten
PatternByte_noAbs(j, i) ==
    LET mid  == (SIZE - 1) \div 2
        d    == mid - i
        high == IF j >= mid + d THEN 1 ELSE 0
        low  == IF j < mid - d THEN 1 ELSE 0
        chr  == IF high = 1 \/ low = 1 THEN 1 ELSE 0
    IN  U8(chr + 48)

PatternByte(j, i) ==
    LET mid  == (SIZE - 1) \div 2
        d    == Abs(mid - i)
        high == IF j >= mid + d THEN 1 ELSE 0
        low  == IF j < mid - d THEN 1 ELSE 0
        chr  == IF high = 1 \/ low = 1 THEN 1 ELSE 0
    IN  U8(chr + 48)

\* the loop run to j < SIZE: one byte more is written
makePayload_over(buf, i) ==
    [k \in 0..SIZE |->
        IF k = 0 THEN MarkerByte(i) ELSE PatternByte(k - 1, i)]

makePayload(buf, i) ==
    [k \in 0..SIZE |->
        IF k = 0 THEN MarkerByte(i)
        ELSE IF k - 1 < SIZE - 1 THEN PatternByte(k - 1, i)
        ELSE buf[k]]

(***************************************************************************)
(* radio.read(&buffer, len): len bytes of the received payload are copied  *)
(* to the start of the buffer.                                             *)
(***************************************************************************)
ReadInto(buf, payload, len) ==
    [k \in 0..SIZE |-> IF k < len THEN payload[k] ELSE buf[k]]

\* the payloads the peer is made to send: its first and its last payload,
\* and 32 bytes 0xFF
RxPayloads ==
    { [k \in 0..(SIZE - 1) |-> makePayload([x \in 0..SIZE |-> 0], 0)[k]],
      [k \in 0..(SIZE - 1) |-> 255] }

VARIABLES
    pc,          \* where main() is: "setup", "main" (the while test),
                 \* "role" (entry of loop), "tx_loop", "tx_end", "input",
                 \* "exit"
    charSigned,  \* whether plain char is signed in this build
    role,        \* bool role
    buffer,      \* char buffer[SIZE + 1], as bytes 0..255
    counter,     \* uint8_t counter
    setup_ok,    \* main's setup_ok
    listening,   \* the transport's state: startListening()/stopListening()
    pipes,       \* the addresses given to openWritingPipe/openReadingPipe
    i,           \* loop's uint8_t i
    failures,    \* loop's uint8_t failures
    rawInput,    \* what getchar_timeout_us() returned in this call of loop
    input,       \* loop's char input
    avail,       \* what radio.available() returned in this call of loop
    calls,       \* external calls made since the last call of loop()
    aborted,     \* whether the break of line 121 was taken in this call
    lastPos,     \* position of the last payload handed to writeFast in
                 \* this call of loop, -1 if none
    lastOk,      \* what that writeFast returned
    sent,        \* per position, the writeFast calls that succeeded in
                 \* this call of loop
    drained      \* payloads read since the node last became the TX node

vars == <<pc, charSigned, pipes, role, buffer, counter, setup_ok, listening, i,
          failures, rawInput, input, avail, calls, aborted, lastPos, lastOk,
          sent, drained>>

NoneSent == [p \in 0..(SIZE - 1) |-> 0]

(***************************************************************************)
(* The state when main() starts: the globals are zero-initialised.         *)
(***************************************************************************)
Init ==
    /\ pc = "setup"
    /\ charSigned \in BOOLEAN
    /\ role = FALSE
    /\ buffer = [k \in 0..SIZE |-> 0]
    /\ counter = 0
    /\ setup_ok = FALSE
    /\ listening = FALSE
    /\ pipes = [writing |-> "", reading |-> ""]
    /\ i = 0
    /\ failures = 0
    /\ rawInput = 0
    /\ input = 0
    /\ avail = FALSE
    /\ calls = NoCalls
    /\ aborted = FALSE
    /\ lastPos = -1
    /\ lastOk = FALSE
    /\ sent = NoneSent
    /\ drained = 0

(***************************************************************************)
(* setup(), and main's setup_ok = setup().                                 *)
(***************************************************************************)
\* uint8_t address[][6] = {"1Node", "2Node"}
address(n) == IF n = 0 THEN "1Node" ELSE "2Node"

\* what getchar() is made to return for the radio number: '0', '1', 'x'
RadioInputs == {48, 49, 120}

\* the test of the role inverted in setup()
SetupIsTx_inverted(r) == ~r

\* if (role) of setup()
SetupIsTx(r) == r

Setup(beginOk, radioInput) ==
    /\ pc = "setup"
    /\ buffer' = [buffer EXCEPT ![SIZE] = 0]
    /\ IF ~beginOk
       THEN /\ setup_ok' = FALSE
            /\ UNCHANGED <<listening, calls, pipes>>
       ELSE /\ setup_ok' = TRUE
            /\ LET radioNumber == IF radioInput = 49 THEN 1 ELSE 0
               IN  pipes' = [writing |-> address(radioNumber),
                             reading |-> address(1 - radioNumber)]
            /\ IF SetupIsTx(role)
               THEN /\ listening' = FALSE
                    /\ calls' = Called(calls, "stopListening", 1)
               ELSE /\ listening' = TRUE
                    /\ calls' = Called(calls, "startListening", 1)
    /\ pc' = "main"
    /\ UNCHANGED <<charSigned, role, counter, i, failures, rawInput, input,
                   avail, aborted, lastPos, lastOk, sent, drained>>

(***************************************************************************)
(* main: while (setup_ok) { loop(); } return                               *)
(***************************************************************************)
\* the loop entered whatever setup() returned
KeepLooping_always(ok) == TRUE

\* while (setup_ok)
KeepLooping(ok) == ok

CallLoop ==
    /\ pc = "main"
    /\ KeepLooping(setup_ok)
    /\ pc' = "role"
    /\ calls' = NoCalls
    /\ i' = 0
    /\ failures' = 0
    /\ rawInput' = 0
    /\ input' = 0
    /\ avail' = FALSE
    /\ aborted' = FALSE
    /\ lastPos' = -1
    /\ lastOk' = FALSE
    /\ sent' = NoneSent
    /\ UNCHANGED <<charSigned, pipes, role, buffer, counter, setup_ok, listening,
                   drained>>

MainReturn ==
    /\ pc = "main"
    /\ ~KeepLooping(setup_ok)
    /\ pc' = "exit"
    /\ UNCHANGED <<charSigned, pipes, role, buffer, counter, setup_ok, listening,
                   i, failures, rawInput, input, avail, calls, aborted,
                   lastPos, lastOk, sent, drained>>

(***************************************************************************)
(* loop(), TX node.                                                        *)
(***************************************************************************)
\* the test of the role inverted
IsTxNode_inverted(r) == ~r

\* if (role)
IsTxNode(r) == r

\* the loop test off by one at the top: a 33rd payload is sent
LoopContinues_more(pos) == pos <= SIZE

\* the loop test off by one at the bottom: the last payload is not sent
LoopContinues_short(pos) == pos < SIZE - 1

\* while (i < SIZE)
LoopContinues(pos) == pos < SIZE

\* the abort one failure late
AbortNow_late(f) == f > FailureThreshold

\* if (failures >= 100) ... break
AbortNow(f) == f >= FailureThreshold

\* the position advanced by two after a successful send
NextPosition_double(pos, ok) == IF ok THEN U8(pos + 2) ELSE pos

\* i after an iteration of the send loop
NextPosition(pos, ok) == IF ok THEN U8(pos + 1) ELSE pos

\* failures counted as consecutive: a successful send resets them
NextFailures_consecutive(f, ok) == IF ok THEN 0 ELSE U8(f + 1)

\* failures after an iteration of the send loop
NextFailures(f, ok) == IF ok THEN f ELSE U8(f + 1)

\* reUseTX called after a successful writeFast too
AfterWrite_always(cs, ok) == Called(cs, "reUseTX", 1)

\* the calls made once writeFast has returned: reUseTX if it failed
AfterWrite(cs, ok) == IF ok THEN cs ELSE Called(cs, "reUseTX", 1)

\* the cycle begun without flush_tx
TxBegin_noFlush ==
    /\ pc = "role"
    /\ role
    /\ i' = 0
    /\ failures' = 0
    /\ pc' = "tx_loop"
    /\ UNCHANGED <<charSigned, pipes, role, buffer, counter, setup_ok, listening,
                   rawInput, input, avail, calls, aborted, lastPos, lastOk,
                   sent, drained>>

\* flush_tx, i = 0, failures = 0, the first test of the while
TxBegin ==
    /\ pc = "role"
    /\ IsTxNode(role)
    /\ calls' = Called(calls, "flush_tx", 1)
    /\ i' = 0
    /\ failures' = 0
    /\ pc' = IF LoopContinues(0) THEN "tx_loop" ELSE "tx_end"
    /\ UNCHANGED <<charSigned, pipes, role, buffer, counter, setup_ok, listening,
                   rawInput, input, avail, aborted, lastPos, lastOk, sent,
                   drained>>

\* one iteration of the while: makePayload, writeFast, the failure test and
\* the next test of the while
TxWrite(ok) ==
    /\ pc = "tx_loop"
    /\ buffer' = makePayload(buffer, i)
    /\ lastPos' = i
    /\ lastOk' = ok
    /\ sent' = IF ok THEN [sent EXCEPT ![i] = @ + 1] ELSE sent
    /\ calls' = AfterWrite(Called(calls, "writeFast", 1), ok)
    /\ i' = NextPosition(i, ok)
    /\ failures' = NextFailures(failures, ok)
    /\ aborted' = AbortNow(failures')
    /\ pc' = IF AbortNow(failures') THEN "tx_end"
             ELSE IF LoopContinues(i') THEN "tx_loop" ELSE "tx_end"
    /\ UNCHANGED <<charSigned, pipes, role, counter, setup_ok, listening, rawInput,
                   input, avail, drained>>

\* the report and sleep_ms(500) after the while
TxReport ==
    /\ pc = "tx_end"
    /\ pc' = "input"
    /\ UNCHANGED <<charSigned, pipes, role, buffer, counter, setup_ok, listening,
                   i, failures, rawInput, input, avail, calls, aborted,
                   lastPos, lastOk, sent, drained>>

(***************************************************************************)
(* loop(), RX node.                                                        *)
(***************************************************************************)
\* counter++
NextCounter(c) == U8(c + 1)

RxPoll(available, payload) ==
    /\ pc = "role"
    /\ ~IsTxNode(role)
    /\ avail' = available
    /\ IF available
       THEN /\ drained < MaxDrained
            /\ buffer' = ReadInto(buffer, payload, SIZE)
            /\ counter' = NextCounter(counter)
            /\ drained' = drained + 1
            /\ calls' = Called(Called(Called(calls, "available", 1),
                                      "read", 1), "readBytes", SIZE)
       ELSE /\ calls' = Called(calls, "available", 1)
            /\ UNCHANGED <<buffer, counter, drained>>
    /\ pc' = "input"
    /\ UNCHANGED <<charSigned, pipes, role, setup_ok, listening, i, failures,
                   rawInput, input, aborted, lastPos, lastOk, sent>>

(***************************************************************************)
(* loop(), the command.                                                    *)
(***************************************************************************)
\* char input = <int>: the low byte, read as signed where char is signed
ToChar(v, signed) ==
    LET b == v % 256
    IN  IF signed /\ b >= 128 THEN b - 256 ELSE b

\* the lower-case letter forgotten
IsTxCommand_upper(c, r) == c = 84 /\ ~r

\* the test of the current role forgotten
IsTxCommand_anyRole(c, r) == c = 84 \/ c = 116

\* (input == 'T' || input == 't') && !role
IsTxCommand(c, r) == (c = 84 \/ c = 116) /\ ~r

\* (input == 'R' || input == 'r') && role
IsRxCommand(c, r) == (c = 82 \/ c = 114) /\ r

\* the reset of the counter forgotten
CounterOnBecomeTx_kept(c) == c

\* counter = 0 when the node becomes the TX node
CounterOnBecomeTx(c) == 0

SampleCommand(raw) ==
    /\ pc = "input"
    /\ rawInput' = raw
    /\ input' = ToChar(raw, charSigned)
    /\ IF input' # PICO_ERROR_TIMEOUT /\ IsTxCommand(input', role)
       THEN /\ role' = TRUE
            /\ counter' = CounterOnBecomeTx(counter)
            /\ drained' = 0
            /\ listening' = FALSE
            /\ calls' = Called(Called(calls, "getchar_timeout_us", 1),
                               "stopListening", 1)
       ELSE IF input' # PICO_ERROR_TIMEOUT /\ IsRxCommand(input', role)
       THEN /\ role' = FALSE
            /\ listening' = TRUE
            /\ calls' = Called(Called(calls, "getchar_timeout_us", 1),
                               "startListening", 1)
            /\ UNCHANGED <<counter, drained>>
       ELSE /\ calls' = Called(calls, "getchar_timeout_us", 1)
            /\ UNCHANGED <<role, counter, drained, listening>>
    /\ pc' = "main"
    /\ UNCHANGED <<charSigned, pipes, buffer, setup_ok, i, failures, avail, aborted,
                   lastPos, lastOk, sent>>

SetupStep == \E beginOk \in BOOLEAN, radioInput \in RadioInputs :
                 Setup(beginOk, radioInput)

TxWriteStep == \E ok \in BOOLEAN : TxWrite(ok)

RxPollStep == \E available \in BOOLEAN, payload \in RxPayloads :
                  RxPoll(available, payload)

SampleStep == \E raw \in Inputs : SampleCommand(raw)

Next ==
    \/ SetupStep
    \/ CallLoop
    \/ MainReturn
    \/ TxBegin
    \/ TxWriteStep
    \/ TxReport
    \/ RxPollStep
    \/ SampleStep

Spec == Init /\ [][Next]_vars

\* the send loop is a busy loop of a running processor: an iteration that
\* can be taken is taken
FairSpec == Spec /\ WF_vars(TxWriteStep)

\* main is a running program: when setup() has failed, it returns
FairRun == FairSpec /\ WF_vars(MainReturn)

TypeOK ==
    /\ pc \in {"setup", "main", "role", "tx_loop", "tx_end", "input", "exit"}
    /\ role \in BOOLEAN
    /\ counter \in 0..255
    /\ i \in 0..255
    /\ failures \in 0..255
    /\ \A k \in 0..SIZE : buffer[k] \in 0..255
(***************************************************************************)
(* What the claims are stated with.                                        *)
(***************************************************************************)
RECURSIVE SumSent(_)
SumSent(n) == IF n = 0 THEN 0 ELSE sent[n - 1] + SumSent(n - 1)

\* the successful and the failed writeFast calls of this call of loop
Successes == SumSent(SIZE)
FailedAttempts == calls["writeFast"] - Successes

\* C1: whatever writeFast returns, the send loop of a transmit cycle ends,
\* and no cycle makes more than SIZE + 99 send attempts.
C1_SendLoopTerminates ==
    /\ [](calls["writeFast"] <= SIZE + 99)
    /\ (pc = "tx_loop") ~> (pc = "tx_end")

\* a cycle that ended after SIZE + 99 send attempts
C1_Witness == pc = "tx_end" /\ calls["writeFast"] = SIZE + 99

\* C2: a cycle ended by the failure-threshold abort has failures = 100 and
\* i < SIZE, and its 100th failure was its last send attempt.
C2_AbortState ==
    aborted =>
        /\ failures = 100
        /\ i < SIZE
        /\ pc # "tx_loop"
        /\ lastOk = FALSE
        /\ FailedAttempts = 100
        /\ calls["writeFast"] = i + 100

\* a cycle aborted after some payloads were sent
C2_Witness == pc = "tx_end" /\ aborted /\ i = 5

\* C3: the first send attempt of a cycle is for position 0, the attempt
\* after a failed one is for the same position, the attempt after a
\* successful one for the next position; the positions sent are 0..k-1,
\* each once.
C3_AttemptOrder ==
    (calls'["writeFast"] = calls["writeFast"] + 1) =>
        lastPos' = IF calls["writeFast"] = 0 THEN 0
                   ELSE IF lastOk THEN lastPos + 1
                   ELSE lastPos

C3_SentPrefix ==
    \E k \in 0..SIZE :
        sent = [p \in 0..(SIZE - 1) |-> IF p < k THEN 1 ELSE 0]

\* C3: the send attempts of a cycle go up the positions without a gap, and
\* the positions sent are 0..k-1, each once.
C3_AscendingNoGaps == []C3_SentPrefix /\ [][C3_AttemptOrder]_vars

\* position 2 is being retried after positions 0 and 1 were sent
C3_Witness ==
    /\ pc = "tx_loop"
    /\ lastPos = 2 /\ ~lastOk /\ failures = 3
    /\ sent[0] = 1 /\ sent[1] = 1 /\ sent[2] = 0

\* C4: a cycle in which fewer than 100 send attempts failed ends with
\* i = SIZE after exactly SIZE successful sends; with no failed attempt it
\* ends with i = SIZE and failures = 0 after exactly SIZE attempts.
C4_CompletesUnderThreshold ==
    pc = "tx_end" =>
        /\ FailedAttempts < 100 =>
              /\ i = SIZE
              /\ Successes = SIZE
              /\ \A p \in 0..(SIZE - 1) : sent[p] = 1
        /\ FailedAttempts = 0 =>
              /\ i = SIZE
              /\ failures = 0
              /\ calls["writeFast"] = SIZE

\* a cycle that completed although 99 send attempts failed
C4_Witness == pc = "tx_end" /\ FailedAttempts = 99 /\ i = SIZE
\* a step that samples and applies the command of a tick
IsSampleStep == pc = "input" /\ pc' = "main"

\* C5: 'T' or 't' received by the RX node makes it the TX node, sets
\* counter to 0 and calls stopListening once (and startListening not).
C5_BecomeTransmitter ==
    [][(IsSampleStep /\ ~role /\ rawInput' \in {84, 116}) =>
          /\ role'
          /\ counter' = 0
          /\ ~listening'
          /\ calls'["stopListening"] = calls["stopListening"] + 1
          /\ calls'["startListening"] = calls["startListening"]]_vars

\* 't' has made the TX node of an RX node that had just read a payload
C5_Witness ==
    /\ pc = "main" /\ rawInput = 116
    /\ calls["read"] = 1 /\ drained = 0
    /\ role /\ counter = 0 /\ ~listening /\ calls["stopListening"] = 1

\* C6: a command for the role the node already has, any other symbol and a
\* timeout leave role, counter and the listening state as they are, and
\* neither startListening nor stopListening is called.
C6_NoSwitchCase ==
    \/ rawInput' = PICO_ERROR_TIMEOUT
    \/ rawInput' \in {84, 116} /\ role
    \/ rawInput' \in {82, 114} /\ ~role
    \/ rawInput' \notin {84, 116, 82, 114}

\* C6: a sampling step in one of these cases changes neither the role, nor
\* the counter, nor the listening state, and calls neither startListening
\* nor stopListening.
C6_CommandFrame ==
    [][(IsSampleStep /\ C6_NoSwitchCase) =>
          /\ role' = role
          /\ counter' = counter
          /\ listening' = listening
          /\ calls'["startListening"] = calls["startListening"]
          /\ calls'["stopListening"] = calls["stopListening"]]_vars

\* 't' was received at the end of a transmit cycle and nothing was switched
C6_Witness ==
    /\ pc = "main" /\ rawInput = 116
    /\ calls["flush_tx"] = 1
    /\ role /\ ~listening
    /\ calls["stopListening"] = 0 /\ calls["startListening"] = 0

\* C7 as claimed: when the work of a tick (a transmit cycle or a receive
\* poll) has been dispatched, the command of that tick has been sampled.
C7_SampleBeforeWork ==
    (calls["flush_tx"] + calls["available"] > 0) =>
        calls["getchar_timeout_us"] > 0

\* C7 as amended: the work of a tick is dispatched first, chosen by the role
\* the node has on entry of the tick, with no command sampled yet; the
\* command is sampled once, after that work, and the role it leaves is the
\* one the next tick's work is chosen by.
C7_Dispatch ==
    /\ pc = "role" =>
          /\ calls'["getchar_timeout_us"] = 0
          /\ role' = role
          /\ IF role
             THEN calls'["flush_tx"] = 1 /\ calls'["available"] = 0
             ELSE calls'["available"] = 1 /\ calls'["flush_tx"] = 0
    /\ pc = "main" => role' = role
    /\ IsSampleStep =>
          /\ calls["flush_tx"] + calls["available"] = 1
          /\ calls["getchar_timeout_us"] = 0
          /\ calls'["getchar_timeout_us"] = 1

\* C7 as amended: in a tick the work comes first, chosen by the role on
\* entry, and the one command sample after it.
C7_WorkBeforeSample ==
    /\ []((calls["getchar_timeout_us"] > 0) =>
             (calls["flush_tx"] + calls["available"] = 1))
    /\ [][C7_Dispatch]_vars

\* a tick that polled for a payload and whose command then made the node
\* the TX node
C7_Witness ==
    /\ pc = "main" /\ rawInput = 84 /\ role
    /\ calls["available"] = 1 /\ calls["flush_tx"] = 0
    /\ calls["getchar_timeout_us"] = 1

\* C8: from the flush of a transmit cycle to the end of its send loop no
\* command is sampled and neither the role nor the listening state
\* changes; when the command of such a tick is sampled, the cycle has
\* completed (i = SIZE) or was aborted.
C8_InCycle == pc = "tx_loop" \/ (pc = "role" /\ role)

\* C8: no command sample and no change of role or listening state within
\* a transmit cycle; the command is sampled once the cycle completed or
\* was aborted.
C8_NoSwitchInCycle ==
    /\ [][C8_InCycle =>
             /\ role' = role
             /\ listening' = listening
             /\ calls'["getchar_timeout_us"] = 0]_vars
    /\ []((pc = "tx_loop") =>
             (role /\ calls["flush_tx"] = 1
                   /\ calls["getchar_timeout_us"] = 0))
    /\ []((calls["flush_tx"] > 0 /\ calls["getchar_timeout_us"] > 0) =>
             (i = SIZE \/ aborted))

\* 'r' has made the RX node of a node whose transmit cycle had retries and
\* completed
C8_Witness ==
    /\ pc = "main" /\ rawInput = 114
    /\ calls["flush_tx"] = 1 /\ calls["writeFast"] > SIZE /\ i = SIZE
    /\ ~role /\ listening

\* C9: a tick of the RX node calls read once, for SIZE bytes, and raises
\* counter by exactly 1 when available() returned true; it calls no read
\* and leaves buffer and counter as they are when it returned false.
C9_OnePayloadPerTick ==
    [][(pc = "role" /\ ~role) =>
          /\ calls'["available"] = 1
          /\ IF avail'
             THEN /\ calls'["read"] = 1
                  /\ calls'["readBytes"] = SIZE
                  /\ counter' = counter + 1
             ELSE /\ calls'["read"] = 0
                  /\ counter' = counter
                  /\ buffer' = buffer]_vars

\* C10: between two ticks counter is the number of payloads read since the
\* node last became the TX node (or since the start).
C10_CounterIsDrained == pc = "main" => counter = drained
\* C11: when radio.begin() fails, loop() is never called: no command is
\* sampled, no call is made to the radio, the node stays the RX node, and
\* main returns.
C11_StartupFailed == pc # "setup" /\ ~setup_ok

\* C11: after a failed radio.begin() no tick runs, no call is made, the
\* node stays the RX node, and main returns.
C11_NoTickAfterFailedBegin ==
    /\ [](C11_StartupFailed =>
             /\ pc \in {"main", "exit"}
             /\ calls = NoCalls
             /\ ~role
             /\ ~listening
             /\ counter = 0)
    /\ C11_StartupFailed ~> (pc = "exit")

\* main has returned after a failed setup()
C11_Witness == pc = "exit" /\ ~setup_ok /\ calls = NoCalls
\* In a call of loop() that has sent, buffer holds the payload made for
\* lastPos: C12, C13 and C14 are stated of that payload, lastPos taking
\* every value of 0..SIZE-1 in the course of a transmit cycle.
Mid == (SIZE - 1) \div 2

\* C12: byte 0 of the payload made for position i is 65 + i when i < 26 and
\* 71 + i otherwise, and no other position of 0..SIZE-1 has that byte 0.
C12_MarkerByte ==
    lastPos >= 0 =>
        /\ buffer[0] = IF lastPos < 26 THEN 65 + lastPos ELSE 71 + lastPos
        /\ \A p \in 0..(SIZE - 1) :
              p # lastPos => makePayload(buffer, p)[0] # buffer[0]

\* the payload of the last position, marked 'f'
C12_Witness == lastPos = SIZE - 1 /\ buffer[0] = 102

\* C13: byte j + 1 of the payload made for position i is '1' when
\* j >= mid + d or j < mid - d, with d = |mid - i|, and '0' otherwise.
C13_PatternBytes ==
    lastPos >= 0 =>
        LET d == Abs(Mid - lastPos)
        IN  \A j \in 0..(SIZE - 2) :
               buffer[j + 1] = IF j >= Mid + d \/ j < Mid - d THEN 49 ELSE 48

\* the payload of position 10: '1' at offset 0, '0' at offsets 10 and 19,
\* '1' at offset 20
C13_Witness ==
    /\ lastPos = 10
    /\ buffer[1] = 49 /\ buffer[11] = 48 /\ buffer[20] = 48 /\ buffer[21] = 49

\* the number of '0' among bytes 1..SIZE-1
Zeros(buf) == Cardinality({k \in 1..(SIZE - 1) : buf[k] = 48})

\* C14: bytes 1..SIZE-1 of the payload depend on the position only through
\* d = |mid - i|: a position at the same distance has the same bytes, and a
\* position at a smaller or equal distance has no more '0' bytes.
C14_TriangleWave ==
    lastPos >= 0 =>
        \A p \in 0..(SIZE - 1) :
            LET other == makePayload(buffer, p)
            IN  /\ Abs(Mid - p) = Abs(Mid - lastPos) =>
                      \A k \in 1..(SIZE - 1) : other[k] = buffer[k]
                /\ Abs(Mid - p) <= Abs(Mid - lastPos) =>
                      Zeros(other) <= Zeros(buffer)

\* the payload of position 20, the mirror of position 10, with ten '0'
C14_Witness == lastPos = 20 /\ Zeros(buffer) = 10
\* a step that makes a send attempt
IsWriteStep == calls'["writeFast"] = calls["writeFast"] + 1

\* C15: failures is the number of failed send attempts made so far in the
\* cycle, a successful send leaves it as it is, and it is at most 100.
C15_FailuresCumulative ==
    /\ [](failures = FailedAttempts /\ failures <= 100)
    /\ [][(IsWriteStep /\ lastOk') => failures' = failures]_vars

\* a successful send after 50 failed attempts
C15_Witness == pc = "tx_loop" /\ lastOk /\ failures = 50 /\ i = 10

\* C16: a transmit cycle begins with one flush_tx, made before its first
\* send attempt, and with i = 0 and failures = 0; no send attempt is made
\* in a call of loop() that has not flushed.
C16_CycleStart ==
    /\ [](/\ calls["flush_tx"] <= 1
          /\ calls["writeFast"] > 0 => calls["flush_tx"] = 1)
    /\ [][(pc = "role" /\ role) =>
             /\ calls'["flush_tx"] = 1
             /\ calls'["writeFast"] = 0
             /\ i' = 0
             /\ failures' = 0]_vars
    /\ [][(IsWriteStep /\ calls["writeFast"] = 0) =>
             /\ calls["flush_tx"] = 1
             /\ i = 0
             /\ failures = 0]_vars

\* a cycle has begun, flushed and not yet sent, while buffer still holds the
\* payload 'F' at which the cycle before was aborted
C16_Witness ==
    /\ pc = "tx_loop"
    /\ calls["flush_tx"] = 1 /\ calls["writeFast"] = 0
    /\ i = 0 /\ failures = 0
    /\ buffer[0] = 70

\* C17: a failed send attempt is followed by one reUseTX before the next
\* attempt or the end of the cycle, the 100th failure included, and leaves
\* i as it is; a successful send is followed by no reUseTX and raises i.
C17_RearmAfterFailure ==
    /\ [](/\ calls["reUseTX"] = FailedAttempts
          /\ aborted => calls["reUseTX"] = 100)
    /\ [][IsWriteStep =>
             IF lastOk'
             THEN calls'["reUseTX"] = calls["reUseTX"] /\ i' = i + 1
             ELSE calls'["reUseTX"] = calls["reUseTX"] + 1 /\ i' = i]_vars
    /\ [][(calls'["reUseTX"] > calls["reUseTX"]) =>
             (IsWriteStep /\ ~lastOk')]_vars

\* a cycle aborted at position 7 after 100 reUseTX
C17_Witness ==
    pc = "tx_end" /\ aborted /\ i = 7 /\ calls["reUseTX"] = 100
\* a step that calls c
Calls(c) == calls'[c] > calls[c]

\* C18: once setup() has succeeded, the radio listens exactly when the node
\* is the RX node; flush_tx, writeFast and reUseTX are called only while it
\* does not listen, available and read only while it listens.
C18_ListeningIffReceive ==
    /\ []((setup_ok /\ pc # "setup") => (listening <=> ~role))
    /\ [][(Calls("flush_tx") \/ Calls("writeFast") \/ Calls("reUseTX")) =>
             (~listening /\ ~listening')]_vars
    /\ [][(Calls("available") \/ Calls("read")) =>
             (listening /\ listening')]_vars

\* the node is the RX node again, and listens, after a transmit cycle that
\* completed
C18_Witness == pc = "role" /\ ~role /\ listening /\ buffer[0] = 102

\* C19: counter is 0 whenever the node is the TX node: nothing done in the
\* TX role changes it, so the node comes back to the RX role with
\* counter = 0.
C19_CounterZeroInTransmit ==
    /\ [](role => counter = 0)
    /\ [][role => counter' = counter]_vars
    /\ [][(role /\ ~role') => counter' = 0]_vars

\* 'R' has made the RX node of the TX node at the end of a transmit cycle
C19_Witness ==
    /\ pc = "main" /\ rawInput = 82 /\ calls["flush_tx"] = 1
    /\ ~role /\ counter = 0

\* C20: buffer[SIZE] is 0 and stays 0: making a payload writes the indices
\* 0..SIZE-1 (no byte 0 or 0xFF is left there) and not SIZE, a read writes
\* the SIZE bytes of the payload from index 0 and not SIZE.
C20_TerminatorKept ==
    /\ [](buffer[SIZE] = 0)
    /\ [][IsWriteStep =>
             /\ buffer'[SIZE] = buffer[SIZE]
             /\ \A k \in 0..(SIZE - 1) : buffer'[k] \notin {0, 255}]_vars
    /\ [][Calls("read") =>
             /\ buffer'[SIZE] = buffer[SIZE]
             /\ \E p \in RxPayloads :
                   \A k \in 0..(SIZE - 1) : buffer'[k] = p[k]]_vars

\* a payload of 32 bytes 0xFF has been read and the terminator is 0
C20_Witness ==
    /\ calls["read"] = 1
    /\ buffer[0] = 255 /\ buffer[SIZE - 1] = 255 /\ buffer[SIZE] = 0
====
